---- MODULE Spec2Model ----
(***************************************************************************)
(* A model of made.data.DEDataModule (src/made/data/module.py), of         *)
(* made.data.utils.initialize_transforms (src/made/data/utils.py) and of   *)
(* made.training.MADETrainer (src/made/training/module.py).                *)
(*                                                                         *)
(* Python values are tagged records, so that values of different Python    *)
(* types can be told apart (None, 0, 0.0 and False are four values).       *)
(* A float is the exact rational num / FDen; FDen is a power of two and    *)
(* the magnitudes are small, so every float of the model is a binary64     *)
(* value and 1 - f, len * (1 - f) are computed without rounding.           *)
(***************************************************************************)
EXTENDS Integers, Sequences, FiniteSets, TLC

\* ------------------------------------------------------------------ bounds
\* the largest dataset length
MaxLen == 3
\* floats are multiples of 1 / 2^FExp
FExp == 2
\* the largest total of a tensor of losses, and the largest batch
MaxLoss == 1
MaxBatch == 2

RECURSIVE Pow2(_)
Pow2(n) == IF n = 0 THEN 1 ELSE 2 * Pow2(n - 1)
FDen == Pow2(FExp)

\* ------------------------------------------------------------ Python values
None == [type |-> "NoneType"]
IntV(n) == [type |-> "int", v |-> n]
FloatV(k) == [type |-> "float", num |-> k]
BoolV(b) == [type |-> "bool", b |-> b]
StrV(s) == [type |-> "str", s |-> s]
\* a dict is its set of <<key, value>> items (keys are unique)
Dict(items) == [type |-> "dict", items |-> items]
List(elems) == [type |-> "list", elems |-> elems]
Tuple(elems) == [type |-> "tuple", elems |-> elems]
\* an object built by a registry constructor: cls(**kwargs)
Object(cls, kwargs) == [type |-> "object", cls |-> cls, kwargs |-> kwargs]

\* Python truthiness (bool(x)) of the values the module tests
Truthy(x) ==
    CASE x.type = "NoneType" -> FALSE
      [] x.type = "int" -> x.v # 0
      [] x.type = "float" -> x.num # 0
      [] x.type = "bool" -> x.b
      [] x.type = "str" -> x.s # ""
      [] x.type = "dict" -> x.items # {}
      [] x.type = "list" -> x.elems # <<>>
      [] x.type = "tuple" -> x.elems # <<>>
      [] OTHER -> TRUE

\* a if a is not None else b
OrElse(a, b) == IF a # None THEN a ELSE b

Keys(items) == {it[1] : it \in items}
\* {**a, **b}: the items of a whose key b does not set, and the items of b
Merge(a, b) == {it \in a : it[1] \notin Keys(b)} \cup b
\* (d or dict()) for d a dict or None
OrDict(d) == IF Truthy(d) THEN d.items ELSE {}

\* ------------------------------------------------------------- the state
VARIABLES
    registry,   \* get_value: dataset identifier -> length of the dataset it builds
    pc,         \* "new": DEDataModule not constructed; "ready"; "failed": __init__ raised
    self,       \* the attributes of the DEDataModule instance
    ret,        \* the value the last call returned
    err,        \* the exception the last call raised, or "none"
    calls,      \* the calls the last call made to collaborators, in order
    args,       \* the arguments of the last call
    tpc,        \* "new": MADETrainer not constructed; "ready"
    trainer,    \* the attributes of the MADETrainer instance
    grad,       \* torch's global gradient-tracking switch
    tret,       \* the value the last step returned
    logged,     \* the self.log calls of the last step, in order
    stepio      \* the last step: its arguments, and what its collaborators got and gave

dvars == <<registry, pc, self, ret, err, calls, args>>
tvars == <<tpc, trainer, grad, tret, logged, stepio>>
vars == <<registry, pc, self, ret, err, calls, args, tpc, trainer, grad, tret, logged, stepio>>

\* ------------------------------------------------- made.data.utils
\* ToTensor(): the default transform
ToTensor == Object("torchvision.transforms.ToTensor", {})

\* initialize_transforms: None and anything that is neither a dict nor a list
\* pass through; a list becomes Compose of its initialised elements; a dict
\* {"cls": c, "args": a} becomes c(**a), with args defaulting to dict()
RECURSIVE initialize_transforms(_)
initialize_transforms(transforms) ==
    IF transforms = None \/ transforms.type \notin {"dict", "list"}
    THEN transforms
    ELSE IF transforms.type = "list"
    THEN [type |-> "Compose",
          transforms |-> [i \in DOMAIN transforms.elems |->
                             initialize_transforms(transforms.elems[i])]]
    ELSE LET cls == (CHOOSE it \in transforms.items : it[1] = "cls")[2]
             targs == IF "args" \in Keys(transforms.items)
                     THEN (CHOOSE it \in transforms.items : it[1] = "args")[2].items
                     ELSE {}
         IN Object(cls.s, targs)

\* ------------------------------------------------- DEDataModule.__init__
\* the keyword defaults of __init__ (dataset has none: it is always given)
Defaults == [
    dataset |-> StrV("MNIST"), dataset_args |-> None,
    train_dataset |-> None, train_dataset_args |-> None,
    val_size |-> None,
    val_dataset |-> None, val_dataset_args |-> None,
    test_dataset |-> None, test_dataset_args |-> None,
    transforms |-> None, train_transforms |-> None,
    val_transforms |-> None, test_transforms |-> None,
    batch_size |-> IntV(16), train_batch_size |-> None,
    val_batch_size |-> None, test_batch_size |-> None,
    train_shuffle |-> BoolV(TRUE), val_shuffle |-> BoolV(FALSE), test_shuffle |-> BoolV(FALSE),
    num_workers |-> IntV(0), train_num_workers |-> None,
    val_num_workers |-> None, test_num_workers |-> None,
    seed |-> IntV(0)]

\* the first assert with <= for <
ValSizeOkInclusive(val_size) ==
    \/ val_size = None
    \/ val_size.type \in {"int", "bool"}
    \/ (val_size.type = "float" /\ val_size.num <= FDen)

\* the first assert of __init__: val_size is None, an int (bool is a subclass
\* of int), or a float less than 1
ValSizeOk(val_size) ==
    \/ val_size = None
    \/ val_size.type \in {"int", "bool"}
    \/ (val_size.type = "float" /\ val_size.num < FDen)

\* the second assert of __init__
BatchSizesOk(train_batch_size, val_batch_size, test_batch_size) ==
    Truthy(train_batch_size) \/ Truthy(val_batch_size) \/ Truthy(test_batch_size)

\* the attributes __init__ has set when it returns
InitAttrs(kw) ==
    LET transforms == OrElse(kw.transforms, ToTensor) IN
    [train_transforms |-> initialize_transforms(OrElse(kw.train_transforms, transforms)),
     val_transforms |-> initialize_transforms(OrElse(kw.val_transforms, transforms)),
     test_transforms |-> initialize_transforms(OrElse(kw.test_transforms, transforms)),
     seed |-> kw.seed,
     train_data |-> None, val_data |-> None, test_data |-> None,
     train_dataset |-> OrElse(kw.train_dataset, kw.dataset),
     val_size |-> kw.val_size,
     val_dataset |-> OrElse(kw.val_dataset, kw.dataset),
     test_dataset |-> OrElse(kw.test_dataset, kw.dataset),
     train_dataset_args |-> Merge(OrDict(kw.dataset_args), OrDict(kw.train_dataset_args)),
     val_dataset_args |-> Merge(OrDict(kw.dataset_args), OrDict(kw.val_dataset_args)),
     test_dataset_args |-> Merge(OrDict(kw.dataset_args), OrDict(kw.test_dataset_args)),
     train_batch_size |-> OrElse(kw.train_batch_size, kw.batch_size),
     val_batch_size |-> OrElse(kw.val_batch_size, kw.batch_size),
     test_batch_size |-> OrElse(kw.test_batch_size, kw.batch_size),
     train_shuffle |-> kw.train_shuffle,
     val_shuffle |-> kw.val_shuffle,
     test_shuffle |-> kw.test_shuffle,
     train_num_workers |-> OrElse(kw.train_num_workers, kw.num_workers),
     val_num_workers |-> OrElse(kw.val_num_workers, kw.num_workers),
     test_num_workers |-> OrElse(kw.test_num_workers, kw.num_workers),
     dims |-> None]

\* DEDataModule(**kw). An assert that fails raises AssertionError and leaves
\* no instance behind.
Construct(kw) ==
    /\ pc = "new"
    /\ args' = kw
    /\ LET a == InitAttrs(kw) IN
       IF ~ValSizeOk(kw.val_size)
          \/ ~BatchSizesOk(a.train_batch_size, a.val_batch_size, a.test_batch_size)
       THEN /\ pc' = "failed"
            /\ err' = "AssertionError"
            /\ self' = self
       ELSE /\ pc' = "ready"
            /\ err' = "none"
            /\ self' = a
    /\ ret' = None
    /\ calls' = <<>>
    /\ UNCHANGED <<registry, tvars>>

\* ------------------------------------------------- DEDataModule.setup
\* a dataset: the class that built it, the keyword arguments it was built
\* with, and its length
Dataset(cls, kwargs, len) == [type |-> "Dataset", cls |-> cls, kwargs |-> kwargs, len |-> len]
\* a dataset instance handed to __init__ ready-made
Prebuilt(len) == Dataset("prebuilt", {}, len)
\* one of the parts random_split returns, with the length asked for
Subset(dataset, len, seed, part) ==
    [type |-> "Subset", dataset |-> dataset, len |-> len, seed |-> seed, part |-> part]
\* the shape of a sample
Size == [type |-> "Size"]

\* f(k1=v1, ..., **extra) raises TypeError when extra repeats an explicit keyword
KwClash(explicit, extra) == Keys(explicit) \cap Keys(extra) # {}

\* get_dataset: a Dataset instance is returned as it is, an identifier is
\* looked up (get_value, strict) and called with the keyword arguments
get_dataset(dataset, params) ==
    IF dataset.type = "Dataset"
    THEN dataset
    ELSE Dataset(dataset.s, params, registry[dataset.s])

\* the constructor calls get_dataset makes
get_dataset_calls(dataset, params) ==
    IF dataset.type = "Dataset"
    THEN <<>>
    ELSE <<[fn |-> "construct", cls |-> dataset.s, kwargs |-> params]>>

\* int(x) of the float n / d: truncation toward zero
IntOf(n, d) == IF n >= 0 THEN n \div d ELSE -((-n) \div d)

\* round() of the float n / d (n >= 0): to the nearest integer, halves to even
RoundOf(n, d) ==
    LET q == n \div d
        r == n % d
    IN IF 2 * r < d THEN q
       ELSE IF 2 * r > d THEN q + 1
       ELSE IF q % 2 = 0 THEN q ELSE q + 1

\* train_len with the fraction rounded instead of truncated
TrainLenRounded(val_size, len) ==
    IF val_size.type \in {"int", "bool"}
    THEN len - (IF val_size.type = "bool" THEN 1 ELSE val_size.v)
    ELSE RoundOf(len * (FDen - val_size.num), FDen)

\* train_len of setup (module.py:138-142), for a dataset of length len
TrainLen(val_size, len) ==
    IF val_size.type \in {"int", "bool"}
    THEN len - (IF val_size.type = "bool" THEN 1 ELSE val_size.v)
    ELSE IntOf(len * (FDen - val_size.num), FDen)

\* the second length taken for the first
ValLenSwapped(len, train_len) == train_len

\* the second length given to random_split (module.py:146)
ValLen(len, train_len) == len - train_len

\* the keyword arguments of the three get_dataset calls of setup
TrainKwargs(s) == {<<"train", BoolV(TRUE)>>, <<"transform", s.train_transforms>>}
ValKwargs(s) == {<<"transform", s.val_transforms>>}
TestKwargs(s) == {<<"transform", s.test_transforms>>, <<"train", BoolV(FALSE)>>}

\* data[0][0].shape for a dataset or a subset: None is not subscriptable,
\* an empty dataset has no item 0
Item0Error(data) ==
    IF data = None THEN "TypeError"
    ELSE IF data.len < 1 THEN "IndexError"
    ELSE "none"

\* self.dims = self.train_data[0][0].shape (module.py:156)
FitDims(s, cs) ==
    LET e == Item0Error(s.train_data) IN
    [self |-> IF e = "none" THEN [s EXCEPT !.dims = Size] ELSE s, err |-> e, calls |-> cs]

\* whether the fit branch of setup is taken (module.py:128)
FitGuard(stage, s) == stage = StrV("fit") /\ Truthy(s.train_batch_size)

\* whether the test branch of setup is taken (module.py:157)
TestGuard(stage, s) == stage = StrV("test") /\ Truthy(s.test_batch_size)

\* whether setup splits the training dataset (module.py:137)
SplitGuard(s) == Truthy(s.val_size) /\ Truthy(s.val_batch_size)

\* the elif read as "a val_size is set, but nothing was split"
ValGuardSized(s) == ~SplitGuard(s) /\ Truthy(s.val_size)

\* whether setup resolves the validation dataset on its own (module.py:149)
ValGuard(s) == ~SplitGuard(s) /\ Truthy(s.val_batch_size)

\* the validation part of the fit branch (module.py:137-154), after the
\* training dataset is resolved and, without a val_size, cached
FitValidation(s, dataset, cs) ==
    IF SplitGuard(s)
    THEN LET train_len == TrainLen(s.val_size, dataset.len)
             val_len == ValLen(dataset.len, train_len)
         IN FitDims([s EXCEPT !.train_data = Subset(dataset, train_len, s.seed, 0),
                              !.val_data = Subset(dataset, val_len, s.seed, 1)],
                    Append(cs, [fn |-> "random_split", dataset |-> dataset,
                                lengths |-> <<train_len, val_len>>, seed |-> s.seed]))
    ELSE IF ValGuard(s)
    THEN IF KwClash(ValKwargs(s), s.val_dataset_args)
         THEN [self |-> s, err |-> "TypeError", calls |-> cs]
         ELSE LET params == ValKwargs(s) \cup s.val_dataset_args IN
              FitDims([s EXCEPT !.val_data = get_dataset(s.val_dataset, params)],
                      cs \o get_dataset_calls(s.val_dataset, params))
    ELSE FitDims(s, cs)

\* the fit branch of setup (module.py:129-156)
SetupFit(s) ==
    IF KwClash(TrainKwargs(s), s.train_dataset_args)
    THEN [self |-> s, err |-> "TypeError", calls |-> <<>>]
    ELSE LET params == TrainKwargs(s) \cup s.train_dataset_args
             dataset == get_dataset(s.train_dataset, params)
             cs == get_dataset_calls(s.train_dataset, params)
         IN FitValidation(IF ~Truthy(s.val_size) THEN [s EXCEPT !.train_data = dataset] ELSE s,
                          dataset, cs)

\* the test branch of setup (module.py:158-166). test_data is a 1-tuple, so
\* test_data[0][0] is the first sample of the dataset, and .shape exists
\* only when a sample is a tensor (not an (x, y) tuple)
SetupTest(s, sampleHasShape) ==
    IF KwClash(TestKwargs(s), s.test_dataset_args)
    THEN [self |-> s, err |-> "TypeError", calls |-> <<>>]
    ELSE LET params == TestKwargs(s) \cup s.test_dataset_args
             dataset == get_dataset(s.test_dataset, params)
             s1 == [s EXCEPT !.test_data = Tuple(<<dataset>>)]
             e == IF dataset.len < 1 THEN "IndexError"
                  ELSE IF ~sampleHasShape THEN "AttributeError"
                  ELSE "none"
         IN [self |-> IF e = "none" THEN [s1 EXCEPT !.dims = Size] ELSE s1,
             err |-> e,
             calls |-> get_dataset_calls(s.test_dataset, params)]

\* the stages setup is called with
Stages == {StrV("fit"), StrV("test"), None}

\* setup(stage)
Setup(stage, sampleHasShape) ==
    /\ pc = "ready"
    /\ args' = [stage |-> stage]
    /\ LET r == IF FitGuard(stage, self) THEN SetupFit(self)
                ELSE IF TestGuard(stage, self) THEN SetupTest(self, sampleHasShape)
                ELSE [self |-> self, err |-> "none", calls |-> <<>>]
       IN /\ self' = r.self
          /\ err' = r.err
          /\ calls' = r.calls
    /\ ret' = None
    /\ UNCHANGED <<registry, pc, tvars>>

\* ------------------------------------------------- DEDataModule.get_dataloader
\* the DataLoader get_dataloader builds
DataLoader(data, batch_size, shuffle, num_workers, params) ==
    [type |-> "DataLoader", dataset |-> data, batch_size |-> batch_size,
     shuffle |-> shuffle, num_workers |-> num_workers, params |-> params]

\* getattr(self, f"{name}_data") and the like
Attr(s, name, field) ==
    CASE field = "data" ->
           (CASE name = "train" -> s.train_data [] name = "val" -> s.val_data
              [] name = "test" -> s.test_data)
      [] field = "batch_size" ->
           (CASE name = "train" -> s.train_batch_size [] name = "val" -> s.val_batch_size
              [] name = "test" -> s.test_batch_size)
      [] field = "shuffle" ->
           (CASE name = "train" -> s.train_shuffle [] name = "val" -> s.val_shuffle
              [] name = "test" -> s.test_shuffle)
      [] field = "num_workers" ->
           (CASE name = "train" -> s.train_num_workers [] name = "val" -> s.val_num_workers
              [] name = "test" -> s.test_num_workers)

\* get_dataloader with the overrides taken by truthiness (x or default)
get_dataloader_or(s, name, batch_size, shuffle, num_workers, params) ==
    LET data == Attr(s, name, "data") IN
    IF data = None
    THEN None
    ELSE DataLoader(data,
                    IF Truthy(batch_size) THEN batch_size ELSE Attr(s, name, "batch_size"),
                    IF Truthy(shuffle) THEN shuffle ELSE Attr(s, name, "shuffle"),
                    IF Truthy(num_workers) THEN num_workers ELSE Attr(s, name, "num_workers"),
                    params)

\* the value get_dataloader returns (module.py:171-191)
get_dataloader(s, name, batch_size, shuffle, num_workers, params) ==
    LET data == Attr(s, name, "data") IN
    IF data = None
    THEN None
    ELSE DataLoader(data,
                    OrElse(batch_size, Attr(s, name, "batch_size")),
                    OrElse(shuffle, Attr(s, name, "shuffle")),
                    OrElse(num_workers, Attr(s, name, "num_workers")),
                    params)

Names == {"train", "val", "test"}

\* a call of get_dataloader with keyword arguments kw
GetDataloaderCall(name, kw) ==
    /\ pc = "ready"
    /\ args' = [name |-> name, kw |-> kw]
    /\ ret' = get_dataloader(self, name, kw.batch_size, kw.shuffle, kw.num_workers, kw.params)
    /\ err' = "none"
    /\ calls' = IF ret' = None THEN <<>> ELSE <<[fn |-> "DataLoader", loader |-> ret']>>
    /\ UNCHANGED <<registry, pc, self, tvars>>

\* get_dataloader(name, ...)
GetDataloader(kws) == \E name \in Names, kw \in kws : GetDataloaderCall(name, kw)
\* train_dataloader(**params), val_dataloader(**params), test_dataloader(**params)
TrainDataloader(kws) == \E kw \in kws : GetDataloaderCall("train", kw)
ValDataloader(kws) == \E kw \in kws : GetDataloaderCall("val", kw)
TestDataloader(kws) == \E kw \in kws : GetDataloaderCall("test", kw)

\* ------------------------------------------------- MADETrainer
\* a batch of inputs: its shape, and whether the attacker has perturbed it
Tensor(shape, adv) == [type |-> "Tensor", shape |-> shape, adv |-> adv]
\* a tensor of n loss values, kept as their total
Values(total, n) == [type |-> "Values", total |-> total, n |-> n]
\* value.mean(), as the exact fraction total / n
Mean(value) == [type |-> "scalar", num |-> value.total, den |-> value.n]
\* a - b, elementwise: the totals subtract
Minus(a, b) == Values(a.total - b.total, a.n)

RECURSIVE Product(_)
Product(q) == IF q = <<>> THEN 1 ELSE Head(q) * Product(Tail(q))
\* inputs.reshape(inputs.shape[0], -1)
Flatten(t) == [t EXCEPT !.shape = <<Head(t.shape), Product(Tail(t.shape))>>]

\* MADETrainer(**kw): the model, the criterion, and the attacker, which
\* exists only for truthy attack_args (neither None nor an empty dict)
TrainerAttrs(kw) ==
    [hparams |-> kw,
     model |-> Object(kw.model_cls, OrDict(kw.model_args)),
     criterion |-> Object("made.training.criterion.MADETrainingCriterion",
                          OrDict(kw.criterion_args)),
     attacker |-> IF Truthy(kw.attack_args)
                  THEN Object("made.training.attack.PGDAttacker", kw.attack_args.items)
                  ELSE None]

TrainerConstruct(kw) ==
    /\ tpc = "new"
    /\ tpc' = "ready"
    /\ trainer' = TrainerAttrs(kw)
    /\ UNCHANGED <<grad, tret, logged, stepio, dvars>>

\* results[key] = value on a dict kept as the sequence of its items
SetItem(results, key, value) ==
    IF \E i \in DOMAIN results : results[i][1] = key
    THEN [i \in DOMAIN results |-> IF results[i][1] = key THEN <<key, value>> ELSE results[i]]
    ELSE Append(results, <<key, value>>)

\* results[key]
GetItem(results, key) == results[CHOOSE i \in DOMAIN results : results[i][1] = key][2]

\* batch[0] if isinstance(batch, (tuple, list)) else batch, flattened for a MADE
StepInputs(t, batch) ==
    LET inputs == IF batch.type \in {"tuple", "list"} THEN batch.elems[1] ELSE batch IN
    IF t.model.cls = "made.MADE" THEN Flatten(inputs) ELSE inputs

\* the attacker used on every split
AttackGuardAnySplit(t, is_val) == Truthy(t.attacker)

\* whether step goes through the attacker (module.py:59)
AttackGuard(t, is_val) == Truthy(t.attacker) /\ ~is_val

\* the inputs step gives to the criterion (module.py:63, 68)
CriterionInputs(t, inputs, is_val) ==
    IF AttackGuard(t, is_val) THEN [inputs EXCEPT !.adv = TRUE] ELSE inputs

\* the results of step (module.py:59-68); out is what the criterion returned
\* and the two losses the attacker returned
StepResults(t, is_val, out) ==
    IF AttackGuard(t, is_val)
    THEN SetItem(SetItem(SetItem(out.results, "adv/init_loss", out.init_loss),
                         "adv/final_loss", out.final_loss),
                 "adv/loss_diff", Minus(out.final_loss, out.init_loss))
    ELSE out.results

\* every metric logged per epoch
LogCallPerEpoch(item, value, name, is_val) ==
    [name |-> item \o "/" \o name, value |-> Mean(value),
     on_step |-> ~is_val, on_epoch |-> TRUE, logger |-> TRUE, sync_dist |-> TRUE]

\* one self.log call (module.py:70-77)
LogCall(item, value, name, is_val) ==
    [name |-> item \o "/" \o name, value |-> Mean(value),
     on_step |-> ~is_val, on_epoch |-> is_val, logger |-> TRUE, sync_dist |-> TRUE]

\* the value step returns (module.py:78)
StepReturn(results, is_val) == IF ~is_val THEN GetItem(results, "loss") ELSE None

\* step(batch, batch_idx, optimizer_idx, name)
Step(batch, name, out) ==
    /\ tpc = "ready"
    /\ LET is_val == name = "val"
           inputs == StepInputs(trainer, batch)
           results == StepResults(trainer, is_val, out)
       IN /\ grad' = ~is_val
          /\ stepio' = [batch |-> batch, name |-> name,
                         attacked |-> AttackGuard(trainer, is_val),
                         inputs |-> CriterionInputs(trainer, inputs, is_val),
                         out |-> IF AttackGuard(trainer, is_val) THEN out
                                 ELSE [results |-> out.results]]
          /\ logged' = [i \in DOMAIN results |->
                           LogCall(results[i][1], results[i][2], name, is_val)]
          /\ tret' = StepReturn(results, is_val)
    /\ UNCHANGED <<tpc, trainer, dvars>>

\* what the criterion and the attacker may return for a batch of n samples:
\* the criterion a dict that holds "loss", the attacker two losses
Losses(n) == {Values(total, n) : total \in 0..MaxLoss}
Outcomes(n) ==
    {[results |-> r, init_loss |-> i, final_loss |-> f] :
        r \in {<<<<"loss", l>>>> : l \in Losses(n)}
              \cup {<<<<"nll", l>>, <<"loss", l>>>> : l \in Losses(n)},
        i \in Losses(n), f \in Losses(n)}

\* the batches: a tensor of n images, alone or in an (x, y) tuple
Batches ==
    UNION {{Tensor(<<n, 2, 2>>, FALSE), Tuple(<<Tensor(<<n, 2, 2>>, FALSE), StrV("y")>>)} :
              n \in 1..MaxBatch}
BatchLen(batch) ==
    IF batch.type = "tuple" THEN Head(batch.elems[1].shape) ELSE Head(batch.shape)

TrainerKwargs ==
    [model_cls : {"made.MADE", "torch.nn.Linear"}, model_args : {None},
     criterion_args : {None},
     attack_args : {None, Dict({}), Dict({<<"eps", StrV("0.1")>>})}]

\* training_step and validation_step
TrainingStep == \E batch \in Batches : \E out \in Outcomes(BatchLen(batch)) :
    Step(batch, "train", out)
ValidationStep == \E batch \in Batches : \E out \in Outcomes(BatchLen(batch)) :
    Step(batch, "val", out)
DoTrainerConstruct == \E kw \in TrainerKwargs : TrainerConstruct(kw)

\* ------------------------------------------------- the calls that are made
\* validation sizes: None, a str, True, counts from -1 to past the dataset,
\* and the floats from -1/2 to 1 + 1/FDen
ValSizes ==
    {None, StrV("half"), BoolV(TRUE)}
    \cup {IntV(c) : c \in -1..(MaxLen + 1)}
    \cup {FloatV(k) : k \in (-(FDen \div 2))..(FDen + 1)}

\* keyword arguments that vary the validation size and the batch sizes
SplitKwargs ==
    {[Defaults EXCEPT !.val_size = x[1], !.batch_size = x[2], !.train_batch_size = x[3],
                      !.val_batch_size = x[4], !.test_batch_size = x[5]] :
        x \in ValSizes \X {None, IntV(16)} \X {None, IntV(0)} \X {None, IntV(0)}
              \X {None, IntV(0)}}

\* a transform given as {"cls": ..., "args": ...} and one given as a list
DictTransform ==
    Dict({<<"cls", StrV("made.data.utils.ReshapeTensor")>>,
          <<"args", Dict({<<"shape", StrV("(-1,)")>>})>>})
ListTransform == List(<<Object("torchvision.transforms.ToTensor", {}), DictTransform>>)

\* keyword arguments that vary the dataset references, their arguments and
\* the transforms
ResolveKwargs ==
    {[Defaults EXCEPT !.dataset = x[1], !.val_dataset = x[2], !.test_dataset = x[3],
                      !.dataset_args = x[4], !.train_dataset_args = x[5],
                      !.val_dataset_args = x[6], !.test_dataset_args = x[7],
                      !.transforms = x[8], !.val_transforms = x[9], !.val_size = x[10]] :
        x \in {StrV("MNIST"), Prebuilt(MaxLen)} \X {None, StrV("SVHN")}
              \X {None, Prebuilt(1)}
              \X {None, Dict({<<"root", StrV("a")>>, <<"download", BoolV(TRUE)>>})}
              \X {None, Dict({<<"root", StrV("b")>>}), Dict({<<"train", BoolV(TRUE)>>})}
              \X {None, Dict({<<"train", BoolV(FALSE)>>})}
              \X {None, Dict({<<"train", BoolV(TRUE)>>})}
              \X {None, DictTransform} \X {None, ListTransform}
              \X {None, IntV(1)}}

\* keyword arguments that vary the shuffle flags, the worker counts and the
\* batch sizes
LoaderKwargs ==
    {[Defaults EXCEPT !.train_shuffle = x[1], !.val_shuffle = x[2], !.num_workers = x[3],
                      !.train_num_workers = x[4], !.train_batch_size = x[5]] :
        x \in {BoolV(TRUE), BoolV(FALSE)} \X {BoolV(TRUE), BoolV(FALSE)}
              \X {IntV(0), IntV(2)} \X {None, IntV(4)} \X {None, IntV(8)}}

\* get_dataloader called with nothing overridden
NoOverride == {[batch_size |-> None, shuffle |-> None, num_workers |-> None, params |-> {}]}

\* get_dataloader called with overrides, falsy ones among them
Overrides ==
    [batch_size : {None, IntV(0), IntV(4)}, shuffle : {None, BoolV(FALSE)},
     num_workers : {None, IntV(0)}, params : {{}}]
    \cup [batch_size : {None}, shuffle : {None}, num_workers : {None},
          params : {{<<"drop_last", BoolV(TRUE)>>}}]

\* ------------------------------------------------- specifications
InitWith(ids, lens) ==
    /\ registry \in [ids -> lens]
    /\ pc = "new"
    /\ self = None
    /\ ret = None
    /\ err = "none"
    /\ calls = <<>>
    /\ args = None
    /\ tpc = "new"
    /\ trainer = None
    /\ grad = TRUE
    /\ tret = None
    /\ logged = <<>>
    /\ stepio = None

DoConstruct(kwargs) == \E kw \in kwargs : Construct(kw)
DoSetup == \E stage \in Stages, sampleHasShape \in BOOLEAN : Setup(stage, sampleHasShape)

NextWith(kwargs, kws) ==
    \/ DoConstruct(kwargs)
    \/ DoSetup
    \/ GetDataloader(kws)
    \/ TrainDataloader(kws)
    \/ ValDataloader(kws)
    \/ TestDataloader(kws)

\* the data module with every validation size, batch size and dataset length
Init == InitWith({"MNIST"}, 0..MaxLen)
Next == NextWith(SplitKwargs, NoOverride)
Spec == Init /\ [][Next]_vars

\* the data module with every kind of dataset reference and argument mapping
InitResolve == InitWith({"MNIST", "SVHN"}, {MaxLen})
NextResolve == NextWith(ResolveKwargs, NoOverride)
SpecResolve == InitResolve /\ [][NextResolve]_vars

\* the data module with every loader configuration and override
NextLoader == NextWith(LoaderKwargs, Overrides)
SpecLoader == Init /\ [][NextLoader]_vars

\* the trainer, with and without an attacker, stepping in any order
NextTrainer == DoTrainerConstruct \/ TrainingStep \/ ValidationStep
InitTrainer == InitWith({"MNIST"}, {MaxLen})
SpecTrainer == InitTrainer /\ [][NextTrainer]_vars

\* ------------------------------------------------- properties: the split
\* the last call was setup("fit")
AfterFit == pc = "ready" /\ args = [stage |-> StrV("fit")]
\* the last call was setup("fit") and it went through random_split
AfterSplit == AfterFit /\ calls # <<>> /\ calls[Len(calls)].fn = "random_split"
\* the random_split call of the last setup
SplitCall == calls[Len(calls)]
IsFraction(v) == v.type = "float"
IsCount(v) == v.type \in {"int", "bool"}
CountOf(v) == IF v.type = "bool" THEN 1 ELSE v.v

\* C1 as stated: for a fraction f (here 0 < f < 1) the train split has
\* round(len * (1 - f)) elements
C1_TrainLenIsRound ==
    (AfterSplit /\ IsFraction(self.val_size) /\ self.val_size.num > 0) =>
        self.train_data.len = RoundOf(SplitCall.dataset.len * (FDen - self.val_size.num), FDen)

\* C1 as amended: for a fraction f the train split length t is len * (1 - f)
\* truncated, the integer with t <= len * (1 - f) < t + 1
C1_TrainLenIsTruncated ==
    (AfterSplit /\ IsFraction(self.val_size)) =>
        LET t == self.train_data.len
            n == SplitCall.dataset.len
        IN /\ SplitCall.lengths[1] = t
           /\ t * FDen <= n * (FDen - self.val_size.num)
           /\ n * (FDen - self.val_size.num) < (t + 1) * FDen

\* a split by a fraction where truncating and rounding differ
C1_Witness ==
    /\ AfterSplit
    /\ IsFraction(self.val_size)
    /\ self.val_size.num > 0
    /\ self.train_data.len
         # RoundOf(SplitCall.dataset.len * (FDen - self.val_size.num), FDen)

\* C2: whenever setup splits, the validation length is the remainder
\* len - train_len, the two lengths add up to the length of the training
\* dataset, and for a count c the train length is len - c
C2_SplitLengthsAddUp ==
    AfterSplit =>
        LET n == SplitCall.dataset.len IN
        /\ SplitCall.lengths = <<self.train_data.len, self.val_data.len>>
        /\ self.val_data.len = n - self.train_data.len
        /\ self.train_data.len + self.val_data.len = n
        /\ IsCount(self.val_size) => self.train_data.len = n - CountOf(self.val_size)

\* a split by a count that leaves both parts non-empty
C2_Witness ==
    /\ AfterSplit
    /\ self.val_size = IntV(1)
    /\ self.train_data.len = 2
    /\ self.val_data.len = 1

\* C10: the two lengths given to random_split lie in 0..len
C10_SplitLengthsInRange ==
    AfterSplit =>
        /\ SplitCall.lengths[1] \in 0..SplitCall.dataset.len
        /\ SplitCall.lengths[2] \in 0..SplitCall.dataset.len

\* ------------------------------------------------- properties: __init__
\* the last call was DEDataModule(**args)
AfterConstruct == pc # "new" /\ "val_size" \in DOMAIN args
\* the batch size a split ends up with
Effective(own, shared) == IF own.type = "NoneType" THEN shared ELSE own
Falsy(v) == v.type = "NoneType" \/ (v.type = "int" /\ v.v = 0)
\* None, an integer, or a float below 1
AcceptableValSize(v) ==
    \/ v.type = "NoneType"
    \/ v.type \in {"int", "bool"}
    \/ (v.type = "float" /\ v.num < FDen)
AllBatchSizesFalsy(kw) ==
    /\ Falsy(Effective(kw.train_batch_size, kw.batch_size))
    /\ Falsy(Effective(kw.val_batch_size, kw.batch_size))
    /\ Falsy(Effective(kw.test_batch_size, kw.batch_size))

ValResolved ==
    /\ self.val_data.type = "Dataset"
    /\ IF self.val_dataset.type = "Dataset"
       THEN self.val_data = self.val_dataset
       ELSE /\ self.val_data.cls = self.val_dataset.s
            /\ \E i \in DOMAIN calls :
                  calls[i].fn = "construct" /\ calls[i].cls = self.val_dataset.s
                  /\ <<"transform", self.val_transforms>> \in calls[i].kwargs
    /\ \A i \in DOMAIN calls : calls[i].fn # "random_split"

ProperSplit(v, n) ==
    IF ~Truthy(v) THEN n >= 1
    ELSE IF IsCount(v) THEN 0 < CountOf(v) /\ CountOf(v) < n
    ELSE 0 < v.num /\ v.num < FDen /\ n * (FDen - v.num) >= FDen

\* C9: with a truthy train batch size a fit-stage setup raises nothing and
\* leaves train_data cached; with a validation size and a falsy val batch
\* size val_data stays None (stated for non-empty datasets and validation
\* sizes inside the dataset)
C9_FitCachesTrain ==
    (AfterFit /\ Truthy(self.train_batch_size)
              /\ ProperSplit(self.val_size, registry["MNIST"])) =>
        /\ err = "none"
        /\ self.train_data # None
        /\ (Truthy(self.val_size) /\ ~Truthy(self.val_batch_size)) => self.val_data = None

\* data is what setup should have made of the reference ref: the instance
\* itself, unbuilt, or an object built with the merged arguments plus a train
\* flag and the transform
Built(data, ref, merged, transform) ==
    IF ref.type = "Dataset"
    THEN data = ref /\ \A i \in DOMAIN calls : calls[i].fn # "construct" \/ calls[i].cls # ref.cls
    ELSE /\ data.type = "Dataset"
         /\ data.cls = ref.s
         /\ merged \subseteq data.kwargs
         /\ <<"transform", transform>> \in data.kwargs
         /\ "train" \in Keys(data.kwargs \ merged)
         /\ Keys(data.kwargs) = Keys(merged) \cup {"train", "transform"}
         /\ \E i \in DOMAIN calls :
               calls[i] = [fn |-> "construct", cls |-> ref.s, kwargs |-> data.kwargs]

\* C8: every dataset setup builds from an identifier (train or val on fit,
\* test on test) is built with the merged arguments plus a train flag and the
\* split's transform; a dataset instance is used as it is, with no
\* constructor call
C8_BuiltWithBothFlags ==
    /\ (AfterFit /\ self.train_data.type = "Dataset") =>
           Built(self.train_data, self.train_dataset, self.train_dataset_args,
                 self.train_transforms)
    /\ (AfterFit /\ self.val_data.type = "Dataset") =>
           Built(self.val_data, self.val_dataset, self.val_dataset_args, self.val_transforms)
    /\ (pc = "ready" /\ args = [stage |-> StrV("test")] /\ self.test_data.type = "tuple") =>
           Built(self.test_data.elems[1], self.test_dataset, self.test_dataset_args,
                 self.test_transforms)

\* ------------------------------------------------- properties: get_dataloader
\* the last call was get_dataloader
AfterLoader == pc = "ready" /\ "name" \in DOMAIN args
Configured(own, default) == IF own.type = "NoneType" THEN default ELSE own

\* what a step that is a get_dataloader call must satisfy
C4_Step ==
    ("name" \in DOMAIN args') =>
        /\ self' = self /\ pc' = pc /\ registry' = registry
        /\ LET data == Attr(self, args'.name, "data")
               kw == args'.kw
           IN /\ (ret' = None) <=> (data = None)
              /\ err' = "none"
              /\ (data # None) =>
                    /\ ret'.type = "DataLoader"
                    /\ ret'.dataset = data
                    /\ ret'.batch_size
                         = Configured(kw.batch_size, Attr(self, args'.name, "batch_size"))
                    /\ ret'.shuffle = Configured(kw.shuffle, Attr(self, args'.name, "shuffle"))
                    /\ ret'.num_workers
                         = Configured(kw.num_workers, Attr(self, args'.name, "num_workers"))
\* C4: after any sequence of setup calls, every get_dataloader call returns
\* None, raising nothing, exactly when the split's cached data is None, and
\* otherwise a loader over the cached data with each of batch size, shuffle
\* flag and worker count taken from the call when given (not None, falsy
\* values included) and from the split's configuration otherwise; the call
\* changes no attribute of the module
C4_GetDataloader == [][C4_Step]_vars

\* a loader built with a falsy batch size and a falsy shuffle flag given in
\* the call, over a split whose configured values are truthy
C4_Witness ==
    /\ AfterLoader
    /\ args.name = "train"
    /\ args.kw.batch_size = IntV(0)
    /\ args.kw.shuffle = BoolV(FALSE)
    /\ self.train_shuffle = BoolV(TRUE)
    /\ ret # None
    /\ ret.batch_size = IntV(0)
    /\ ret.shuffle = BoolV(FALSE)

\* ------------------------------------------------- properties: step
\* a step has run
AfterStep == tpc = "ready" /\ stepio # None
\* an attacker is configured: attack_args is neither None nor empty
AttackerConfigured ==
    trainer.hparams.attack_args # None /\ trainer.hparams.attack_args.items # {}
AdvKeys == {"adv/init_loss", "adv/final_loss", "adv/loss_diff"}
\* the names the last step logged, and the logged value of a name
LoggedNames == {logged[i].name : i \in DOMAIN logged}
LoggedValue(n) == logged[CHOOSE i \in DOMAIN logged : logged[i].name = n].value
\* the keys of the dict the criterion returned to the last step
CriterionKeys == {stepio.out.results[i][1] : i \in DOMAIN stepio.out.results}
\* the batch the last step was given, as the criterion should see it when
\* nothing perturbs it
PlainInputs ==
    LET x == IF stepio.batch.type = "tuple" THEN stepio.batch.elems[1] ELSE stepio.batch IN
    IF trainer.hparams.model_cls = "made.MADE"
    THEN Tensor(<<x.shape[1], x.shape[2] * x.shape[3]>>, FALSE)
    ELSE x

\* C5: the logged metrics hold the three adv/ keys, with loss_diff =
\* final_loss - init_loss, beside the criterion's own keys exactly when an
\* attacker is configured and the split is train; otherwise they are absent
\* and the criterion is given the unperturbed input
C5_AdvKeys ==
    AfterStep =>
        LET split == stepio.name
            adv == {k \o "/" \o split : k \in AdvKeys}
            own == {k \o "/" \o split : k \in CriterionKeys}
        IN /\ own \subseteq LoggedNames
           /\ IF AttackerConfigured /\ split = "train"
              THEN /\ adv \subseteq LoggedNames
                   /\ LoggedNames = own \cup adv
                   /\ LoggedValue("adv/loss_diff/train").num
                        = LoggedValue("adv/final_loss/train").num
                          - LoggedValue("adv/init_loss/train").num
                   /\ LoggedValue("adv/init_loss/train") = Mean(stepio.out.init_loss)
                   /\ LoggedValue("adv/final_loss/train") = Mean(stepio.out.final_loss)
                   /\ stepio.inputs = [PlainInputs EXCEPT !.adv = TRUE]
              ELSE /\ adv \cap LoggedNames = {}
                   /\ LoggedNames = own
                   /\ stepio.inputs = PlainInputs

\* a training step through the attacker whose final loss is above the
\* initial one
C5_Witness ==
    /\ AfterStep
    /\ AttackerConfigured
    /\ stepio.name = "train"
    /\ "adv/loss_diff/train" \in LoggedNames
    /\ LoggedValue("adv/loss_diff/train").num = 1

\* C6: every result is logged exactly once, under "<key>/<split>"; a
\* training step logs per step, not per epoch, and returns the "loss" entry
\* of the results; a validation step logs per epoch, not per step, and
\* returns None
C6_LoggingAndReturn ==
    AfterStep =>
        LET split == stepio.name
            keys == CriterionKeys \cup (IF stepio.attacked THEN AdvKeys ELSE {})
        IN /\ Len(logged) = Cardinality(keys)
           /\ \A k \in keys :
                 Cardinality({i \in DOMAIN logged : logged[i].name = k \o "/" \o split}) = 1
           /\ \A k \in CriterionKeys :
                 LoggedValue(k \o "/" \o split) = Mean(GetItem(stepio.out.results, k))
           /\ \A i \in DOMAIN logged :
                 /\ logged[i].on_step = (split = "train")
                 /\ logged[i].on_epoch = (split = "val")
           /\ (split = "train") => tret = GetItem(stepio.out.results, "loss")
           /\ (split = "val") => tret = None
           /\ grad = (split = "train")

\* a validation step of a trainer with an attacker, after which two metrics
\* are logged
C6_Witness ==
    /\ AfterStep
    /\ AttackerConfigured
    /\ stepio.name = "val"
    /\ Len(logged) = 2
    /\ tret = None

====
